---- MODULE Spec2Model ----
(***************************************************************************)
(* Model of the summarizer route (POST /api/summarize): the in-memory      *)
(* summary cache, its key hash, the expiry sweep, the provider dispatch    *)
(* and the request handler, as a state machine over a millisecond clock.   *)
(***************************************************************************)
EXTENDS Integers, Sequences, FiniteSets, Bags, TLC

(***************************************************************************)
(* Bounds of the model.                                                    *)
(***************************************************************************)
\* the clock advances in steps of CACHE_DURATION \div TicksPerTTL milliseconds
TicksPerTTL == 2
\* the clock stops advancing after MaxTicks steps
MaxTicks == 3
\* number of requests that can be in flight at the same time
MaxReq == 2

(***************************************************************************)
(* 32-bit integer arithmetic of the hash.                                  *)
(***************************************************************************)
MaxInt32 == (2^30 - 1) + 2^30
MinInt32 == (0 - MaxInt32) - 1
Two26 == 2^26
Two27 == 2^27

\* ToInt32(a + b) for two 32-bit integers, computed without leaving 32 bits
AddInt32(a, b) ==
  IF a >= 0 /\ b >= 0 /\ a > MaxInt32 - b
    THEN ((a - MaxInt32) - 1) + ((b - MaxInt32) - 1)
    ELSE IF a < 0 /\ b < 0 /\ a < MinInt32 - b
      THEN ((a + MaxInt32) + 1) + ((b + MaxInt32) + 1)
      ELSE a + b

\* ToInt32(-a)
NegInt32(a) == IF a = MinInt32 THEN MinInt32 ELSE 0 - a

\* hash << 5: the low 27 bits move up, bit 26 becomes the sign
Shl5(h) ==
  LET low == h % Two27
  IN  IF low >= Two26 THEN (low - Two27) * 32 ELSE low * 32

\* the round with the subtraction left out: hash = (hash << 5) + char
hashStepShiftOnly(hash, char) == AddInt32(Shl5(hash), char)

\* one round of the loop: hash = (hash << 5) - hash + char; hash = hash & hash
hashStep(hash, char) == AddInt32(AddInt32(Shl5(hash), NegInt32(hash)), char)

RECURSIVE hashLoop(_, _, _)
hashLoop(text, i, hash) ==
  IF i > Len(text) THEN hash
  ELSE hashLoop(text, i + 1, hashStep(hash, text[i]))

\* Number.prototype.toString(36)
Digit36(d) == SubSeq("0123456789abcdefghijklmnopqrstuvwxyz", d + 1, d + 1)

RECURSIVE toString36Neg(_)
\* the digits of a number n <= 0, most significant first ("" for 0)
toString36Neg(n) ==
  IF n = 0 THEN ""
  ELSE LET d == (36 - (n % 36)) % 36
       IN  toString36Neg((n + d) \div 36) \o Digit36(d)

toString36(n) ==
  IF n = 0 THEN "0"
  ELSE IF n < 0 THEN "-" \o toString36Neg(n)
  ELSE toString36Neg(0 - n)

hashText(text) == toString36(hashLoop(text, 1, 0))

(***************************************************************************)
(* Values of the request body.  A text is a sequence of UTF-16 code units. *)
(***************************************************************************)
Undefined == [type |-> "undefined", chars |-> <<>>, str |-> ""]
Number5 == [type |-> "number", chars |-> <<>>, str |-> ""]
Text(chars) == [type |-> "string", chars |-> chars, str |-> ""]
Str(s) == [type |-> "string", chars |-> <<>>, str |-> s]

\* "Aa search" and "BB search" have the same hash (1752432008, "szcp6w");
\* "AI search" has another, a negative one (-1420310368, "-nhm6hs")
TextAa == <<65, 97, 32, 115, 101, 97, 114, 99, 104>>
TextBB == <<66, 66, 32, 115, 101, 97, 114, 99, 104>>
TextAI == <<65, 73, 32, 115, 101, 97, 114, 99, 104>>

StringTexts == {TextAa, TextBB, TextAI}
TextValues == {Undefined, Number5, Text(<<>>)} \cup {Text(t) : t \in StringTexts}
ApiKeyValues == {Undefined, Str(""), Str("sk-test")}

\* a body request.json() cannot parse
BadBody == [parses |-> FALSE, text |-> Undefined, apiKey |-> Undefined,
            provider |-> Undefined]
\* The bodies of the requests:
\*   every text that passes the validation with every credential, under the
\*   default provider and under an unsupported one;
\*   one text with every credential under a provider of another response
\*   shape (the groq branch has the response shape of the default's);
\*   every text that fails the validation, with and without a credential.
Bodies ==
  {BadBody}
  \cup [parses : {TRUE}, text : {Text(t) : t \in StringTexts},
        apiKey : ApiKeyValues, provider : {Undefined, Str("mistral")}]
  \cup [parses : {TRUE}, text : {Text(TextAI)}, apiKey : ApiKeyValues,
        provider : {Str("anthropic")}]
  \cup [parses : {TRUE}, text : TextValues \ {Text(t) : t \in StringTexts},
        apiKey : {Undefined, Str("sk-test")}, provider : {Undefined}]

(***************************************************************************)
(* The cache: a Map from key to { summary, timestamp }.                    *)
(***************************************************************************)
CACHE_DURATION == 5 * 60 * 1000

\* hashText of every string a request can carry, computed once
KeyTable == [t \in StringTexts \cup {<<>>} |-> hashText(t)]

Tick == CACHE_DURATION \div TicksPerTTL
MaxClock == MaxTicks * Tick

EmptyCache == [k \in {} |-> [summary |-> "", timestamp |-> 0]]

NoEntry == [present |-> FALSE, summary |-> "", timestamp |-> 0]

\* cache.get(key)
CacheGet(c, key) ==
  IF key \in DOMAIN c
    THEN [present |-> TRUE, summary |-> c[key].summary,
          timestamp |-> c[key].timestamp]
    ELSE NoEntry

\* a store that drops every other entry of the Map
CacheSetEvicting(c, key, summary, now) ==
  [k \in {key} |-> [summary |-> summary, timestamp |-> now]]

\* cache.set(key, { summary, timestamp })
CacheSet(c, key, summary, now) ==
  [k \in DOMAIN c \cup {key} |->
     IF k = key THEN [summary |-> summary, timestamp |-> now] ELSE c[k]]

\* the sweep with CACHE_DURATION taken for seconds
cleanExpiredCacheSeconds(c, now) ==
  [k \in {j \in DOMAIN c : ~(now - c[j].timestamp > CACHE_DURATION \div 1000)}
     |-> c[k]]

\* the sweep that deletes nothing
cleanExpiredCacheNoop(c, now) == c

\* cleanExpiredCache(), with now = Date.now()
cleanExpiredCache(c, now) ==
  [k \in {j \in DOMAIN c : ~(now - c[j].timestamp > CACHE_DURATION)} |-> c[k]]

\* the age check left out: if (cached) { return ... }
IsFreshNoCheck(cached, now) == TRUE

\* the age check inverted: age > CACHE_DURATION
IsFreshInverted(cached, now) == now - cached.timestamp > CACHE_DURATION

\* age < CACHE_DURATION, with age = Date.now() - cached.timestamp
IsFresh(cached, now) == now - cached.timestamp < CACHE_DURATION


(***************************************************************************)
(* Responses of the route.                                                 *)
(***************************************************************************)
NoResponse == [status |-> 0, error |-> "", summary |-> "", cached |-> FALSE]
\* NextResponse.json({ summary, cached })
JsonOk(summary, cached) ==
  [status |-> 200, error |-> "", summary |-> summary, cached |-> cached]
\* NextResponse.json({ error }, { status })
JsonError(message, status) ==
  [status |-> status, error |-> message, summary |-> "", cached |-> FALSE]

(***************************************************************************)
(* summarizeWithLLM: the dispatch on the provider and the handling of the  *)
(* upstream's answer.                                                      *)
(***************************************************************************)
\* const { text, apiKey, provider = 'openai' } = body
ResolveProvider(v) == IF v.type = "undefined" THEN "openai" ELSE v.str

\* a dispatch whose last branch takes every other provider
SupportedProviderAny(provider) == TRUE

\* the branches of summarizeWithLLM that issue a fetch
SupportedProvider(provider) == provider \in {"openai", "anthropic", "groq"}

\* the message of the else branch
UnsupportedMessage(provider) == "Unsupported provider: " \o provider

\* the fallback message of each branch when the error body names none
ApiErrorMessage(provider) ==
  IF provider = "openai" THEN "OpenAI API error"
  ELSE IF provider = "anthropic" THEN "Anthropic API error"
  ELSE "Groq API error"

\* where each branch reads the summary: data.choices[0] or data.content[0]
SummaryShape(provider) ==
  IF provider = "anthropic" THEN "content" ELSE "choices"

RECURSIVE TrimLeft(_)
TrimLeft(s) ==
  IF Len(s) > 0 /\ SubSeq(s, 1, 1) = " " THEN TrimLeft(SubSeq(s, 2, Len(s)))
  ELSE s

RECURSIVE TrimRight(_)
TrimRight(s) ==
  IF Len(s) > 0 /\ SubSeq(s, Len(s), Len(s)) = " "
    THEN TrimRight(SubSeq(s, 1, Len(s) - 1))
  ELSE s

\* String.prototype.trim
Trim(s) == TrimRight(TrimLeft(s))

\* field?.trim() || 'Summary not available'
SummaryOf(field) ==
  IF field.type = "string" /\ Trim(field.str) # "" THEN Trim(field.str)
  ELSE "Summary not available"

\* What the upstream can answer to one fetch:
\*   ok       an OK response, its JSON of the given shape carrying the field
\*   http     a non-OK response: its JSON names a message, names none, or
\*            cannot be read
\*   network  the fetch is rejected
UpstreamOutcomes ==
  [kind : {"ok"}, shape : {"choices", "content"},
   field : {Str(" s1 "), Str(""), Undefined}, body : {"json"}]
  \cup
  [kind : {"http"}, shape : {"none"},
   field : {Str("Incorrect API key provided")}, body : {"json"}]
  \cup
  [kind : {"http"}, shape : {"none"}, field : {Undefined},
   body : {"json", "unreadable"}]
  \cup
  [kind : {"network"}, shape : {"none"}, field : {Undefined}, body : {"none"}]

Returned(summary) == [ok |-> TRUE, summary |-> summary, message |-> ""]
Thrown(message) == [ok |-> FALSE, summary |-> "", message |-> message]

\* the rest of summarizeWithLLM once the fetch of its branch has settled
summarizeWithLLM(provider, outcome) ==
  IF outcome.kind = "network" THEN Thrown("fetch failed")
  ELSE IF outcome.kind = "http" THEN
    IF outcome.body = "unreadable" THEN Thrown("Unknown error")
    ELSE IF outcome.field.type = "string" /\ outcome.field.str # ""
      THEN Thrown(outcome.field.str)
    ELSE Thrown(ApiErrorMessage(provider))
  ELSE IF outcome.shape # SummaryShape(provider)
    THEN Thrown("Cannot read properties of undefined (reading '0')")
  ELSE Returned(SummaryOf(outcome.field))

\* whether the upstream call of a request succeeded
UpstreamOk(provider, outcome) == summarizeWithLLM(provider, outcome).ok

(***************************************************************************)
(* POST: the handler up to its upstream call.                              *)
(***************************************************************************)
\* the validation without !text: typeof text !== 'string' is false
IsValidTextAnyString(text) == text.type = "string"

\* !text || typeof text !== 'string' is false
IsValidText(text) == text.type = "string" /\ Len(text.chars) > 0

\* the check apiKey === undefined instead of !apiKey
HasApiKeyDefined(apiKey) == apiKey.type # "undefined"

\* !apiKey is false
HasApiKey(apiKey) == apiKey.type = "string" /\ apiKey.str # ""

\* The handler from its start to its first upstream call or its response.
\* t0 is the Date.now() of the sweep and t1 the Date.now() of the age check.
POSTSync(c, body, t0, t1) ==
  IF ~body.parses THEN
    [cache |-> c, pending |-> FALSE, key |-> "",
     resp |-> JsonError("Unexpected end of JSON input", 500)]
  ELSE IF ~IsValidText(body.text) THEN
    [cache |-> c, pending |-> FALSE, key |-> "",
     resp |-> JsonError("Text is required", 400)]
  ELSE
    LET swept == cleanExpiredCache(c, t0)
        cacheKey == KeyTable[body.text.chars]
        hit == CacheGet(swept, cacheKey)
        prov == ResolveProvider(body.provider)
    IN  IF hit.present /\ IsFresh(hit, t1) THEN
          [cache |-> swept, pending |-> FALSE, key |-> cacheKey,
           resp |-> JsonOk(hit.summary, TRUE)]
        ELSE IF ~HasApiKey(body.apiKey) THEN
          [cache |-> swept, pending |-> FALSE, key |-> cacheKey,
           resp |-> JsonError("API key is required. Please set it in Settings.",
                              400)]
        ELSE IF ~SupportedProvider(prov) THEN
          [cache |-> swept, pending |-> FALSE, key |-> cacheKey,
           resp |-> JsonError(UnsupportedMessage(prov), 500)]
        ELSE
          [cache |-> swept, pending |-> TRUE, key |-> cacheKey,
           resp |-> NoResponse]

\* whether the handler reads the clock a second time (line 161)
ReadsAge(c, body, t0) ==
  /\ body.parses
  /\ IsValidText(body.text)
  /\ KeyTable[body.text.chars] \in DOMAIN cleanExpiredCache(c, t0)


\* the entry the Map holds under the key of the text when a request arrives
EntryBefore(c, text) ==
  IF /\ text.type = "string"
     /\ text.chars \in DOMAIN KeyTable
     /\ KeyTable[text.chars] \in DOMAIN c
    THEN [present |-> TRUE, summary |-> c[KeyTable[text.chars]].summary,
          timestamp |-> c[KeyTable[text.chars]].timestamp]
    ELSE NoEntry

(***************************************************************************)
(* State.                                                                  *)
(*   clock      Date.now(), in milliseconds                                *)
(*   cache      the module-level Map                                       *)
(*   req        the bag of requests suspended at their upstream call       *)
(*   last       the handler step that has just run, until control is back  *)
(*              in the event loop: its input, what it saw in the cache,    *)
(*              its response and its effect on the cache                   *)
(*   lastStore  per key, the most recent cache.set younger than the TTL    *)
(*              (kept when the entry is swept), with the text it was for   *)
(*   served     per text, the most recent response with cached: false      *)
(*              younger than the TTL                                       *)
(***************************************************************************)
VARIABLES clock, cache, req, last, lastStore, served

(***************************************************************************)
(* State of the GitHub route (GET /api/github), one request at a time.     *)
(*   queryIndex  the position of the for loop in queries; 0 before the     *)
(*               request, Len(queries) + 1 after the loop                  *)
(*   allRepos    the Map of the repositories merged so far, as the         *)
(*               sequence of its values in insertion order                 *)
(*   ghTrace     what the upstream answered to each query so far           *)
(*   ghResponse  the response of the handler                               *)
(***************************************************************************)
VARIABLES queryIndex, allRepos, ghTrace, ghResponse

(***************************************************************************)
(* State of the Hugging Face route (GET /api/huggingface), one request.    *)
(*   hubPc        where the handler is: "idle", "fetching" (awaiting the   *)
(*                fetch), "body" (awaiting the body), "done"               *)
(*   timeoutId    the 10-second timer: "unset", "armed", "cleared" or      *)
(*                "fired"                                                  *)
(*   upstream     what the Hub does with this request                      *)
(*   hubOutcome   how the upstream call ended for the handler              *)
(*   hubResponse  the response of the handler                              *)
(***************************************************************************)
VARIABLES hubPc, timeoutId, upstream, hubOutcome, hubResponse

(***************************************************************************)
(* State of the page (Home).                                               *)
(*   projects  the list the page displays                                  *)
(*   loading   the loading flag                                            *)
(*   error     the error message, or Null                                  *)
(*   running   the runs of fetchProjects that have started and not ended   *)
(*   routes    what the two route calls of the most recent run end in      *)
(*   arrived   the route calls of the run that have ended                  *)
(*   cleared   the error the most recent run found and cleared at its      *)
(*             start                                                       *)
(*   cards     the state of the cards on the page, by React key            *)
(*             (project.id): isSummarizing and summary                     *)
(*   calls     the bag of calls of /api/summarize in flight: the card, the *)
(*             text sent, whether the card is still on the page            *)
(*   cardLast  the click or the end of handleSummarize that has just       *)
(*             happened, with the alert it raised                          *)
(***************************************************************************)
VARIABLES projects, loading, error, running, routes, arrived, cleared
VARIABLES cards, calls, cardLast

summarizeVars == <<clock, cache, req, last, lastStore, served>>
githubVars == <<queryIndex, allRepos, ghTrace, ghResponse>>
hubVars == <<hubPc, timeoutId, upstream, hubOutcome, hubResponse>>
cardVars == <<cards, calls, cardLast>>
pageVars ==
  <<projects, loading, error, running, routes, arrived, cleared, cardVars>>
fetcherVars == <<githubVars, hubVars, pageVars>>

vars == <<summarizeVars, fetcherVars>>

\* error === null
Null == <<>>

\* no run of fetchProjects yet
NoAnswer == [kind |-> "none", hasProjects |-> FALSE, projects |-> <<>>]
NoRoutes == [github |-> NoAnswer, hub |-> NoAnswer]

\* no card on the page
NoCards == [id \in {} |-> [isSummarizing |-> FALSE, summary |-> Null]]

\* no click and no end of handleSummarize in the step
NoCardStep ==
  [op |-> "none", id |-> "", before |-> Null, alert |-> "", mounted |-> FALSE]

\* no request to the Hub yet
NoUpstream == [headers |-> "none", body |-> "none", spaces |-> <<>>]

\* no response of a fetcher route yet
NoRouteResponse ==
  [status |-> 0, error |-> "", projects |-> <<>>, count |-> -1]

NoOutcome ==
  [kind |-> "none", shape |-> "none", field |-> Undefined, body |-> "none"]

NoStep ==
  [op |-> "none", parses |-> FALSE, text |-> Undefined, apiKey |-> Undefined,
   provider |-> Undefined, t0 |-> 0, t1 |-> 0, key |-> "", pre |-> NoEntry,
   resp |-> NoResponse, pending |-> FALSE, calls |-> 0, outcome |-> NoOutcome,
   added |-> {}, removed |-> {}, changed |-> {}]

NotServed == [present |-> FALSE, summary |-> "", time |-> 0]

Added(old, new) == DOMAIN new \ DOMAIN old
Removed(old, new) == DOMAIN old \ DOMAIN new
Changed(old, new) == {k \in DOMAIN old \cap DOMAIN new : old[k] # new[k]}

\* the records of lastStore and served that are younger than the TTL
RecentStores(stores, now) ==
  [k \in {j \in DOMAIN stores : now - stores[j].timestamp < CACHE_DURATION}
     |-> stores[k]]
RecentServed(srv, now) ==
  [t \in DOMAIN srv |->
     IF srv[t].present /\ now - srv[t].time < CACHE_DURATION THEN srv[t]
     ELSE NotServed]

Init ==
  /\ clock = 0
  /\ cache = EmptyCache
  /\ req = EmptyBag
  /\ last = NoStep
  /\ lastStore = [k \in {} |-> [summary |-> "", timestamp |-> 0, text |-> <<>>]]
  /\ served = [t \in StringTexts |-> NotServed]
  /\ queryIndex = 0
  /\ allRepos = <<>>
  /\ ghTrace = <<>>
  /\ ghResponse = NoRouteResponse
  /\ hubPc = "idle"
  /\ timeoutId = "unset"
  /\ upstream = NoUpstream
  /\ hubOutcome = "none"
  /\ hubResponse = NoRouteResponse
  /\ projects = <<>>
  /\ loading = FALSE
  /\ error = Null
  /\ running = 0
  /\ cleared = Null
  /\ cards = NoCards
  /\ calls = EmptyBag
  /\ cardLast = NoCardStep
  /\ routes = NoRoutes
  /\ arrived = {}

\* the handler with a single flight per key: a request that misses while a
\* request of the same key is in flight makes no upstream call of its own
POST_beginSingleFlight(body, d) ==
  /\ last.op = "none"
  /\ clock + d <= MaxClock
  /\ d > 0 => ReadsAge(cache, body, clock)
  /\ LET res == POSTSync(cache, body, clock, clock + d)
         own == res.pending
                  /\ \A r \in BagToSet(req) : r.cacheKey # res.key
     IN  /\ own => BagCardinality(req) < MaxReq
         /\ cache' = res.cache
         /\ clock' = clock + d
         /\ req' =
              IF own
                THEN req (+) SetToBag({
                       [text |-> body.text.chars, apiKey |-> body.apiKey,
                        provider |-> body.provider,
                        resolved |-> ResolveProvider(body.provider),
                        cacheKey |-> res.key, calls |-> 1]})
                ELSE req
         /\ last' =
              [op |-> "begin", parses |-> body.parses, text |-> body.text,
               apiKey |-> body.apiKey, provider |-> body.provider,
               t0 |-> clock, t1 |-> clock + d, key |-> res.key,
               pre |-> EntryBefore(cache, body.text), resp |-> res.resp,
               pending |-> own,
               calls |-> IF own THEN 1 ELSE 0, outcome |-> NoOutcome,
               added |-> Added(cache, res.cache),
               removed |-> Removed(cache, res.cache),
               changed |-> Changed(cache, res.cache)]
  /\ lastStore' = RecentStores(lastStore, clock + d)
  /\ served' = RecentServed(served, clock + d)
  /\ UNCHANGED fetcherVars

\* A request arrives and its handler runs to its response or to its upstream
\* call.  d is the time that passes between the two readings of the clock.
POST_begin(body, d) ==
  /\ last.op = "none"
  /\ clock + d <= MaxClock
  /\ d > 0 => ReadsAge(cache, body, clock)
  /\ LET res == POSTSync(cache, body, clock, clock + d)
     IN  /\ res.pending => BagCardinality(req) < MaxReq
         /\ cache' = res.cache
         /\ clock' = clock + d
         /\ req' =
              IF res.pending
                THEN req (+) SetToBag({
                       [text |-> body.text.chars, apiKey |-> body.apiKey,
                        provider |-> body.provider,
                        resolved |-> ResolveProvider(body.provider),
                        cacheKey |-> res.key, calls |-> 1]})
                ELSE req
         /\ last' =
              [op |-> "begin", parses |-> body.parses, text |-> body.text,
               apiKey |-> body.apiKey, provider |-> body.provider,
               t0 |-> clock, t1 |-> clock + d, key |-> res.key,
               pre |-> EntryBefore(cache, body.text), resp |-> res.resp,
               pending |-> res.pending,
               calls |-> IF res.pending THEN 1 ELSE 0, outcome |-> NoOutcome,
               added |-> Added(cache, res.cache),
               removed |-> Removed(cache, res.cache),
               changed |-> Changed(cache, res.cache)]
  /\ lastStore' = RecentStores(lastStore, clock + d)
  /\ served' = RecentServed(served, clock + d)
  /\ UNCHANGED fetcherVars

\* the store moved before the outcome of the call is known
CacheAfterCallAlways(c, key, result, now) ==
  CacheSet(c, key, result.summary, now)

\* the store left out when the key already holds an entry
CacheAfterCallFirstWins(c, key, result, now) ==
  IF result.ok /\ key \notin DOMAIN c
    THEN CacheSet(c, key, result.summary, now)
    ELSE c

\* the cache after the upstream call of a request has settled
CacheAfterCall(c, key, result, now) ==
  IF result.ok THEN CacheSet(c, key, result.summary, now) ELSE c

\* The upstream call of request r settles and its handler runs to its response.
POST_resume(r, outcome) ==
  /\ last.op = "none"
  /\ BagIn(r, req)
  /\ LET llm == summarizeWithLLM(r.resolved, outcome)
         after == CacheAfterCall(cache, r.cacheKey, llm, clock)
     IN  /\ cache' = after
         /\ last' =
              [op |-> "resume", parses |-> TRUE, text |-> Text(r.text),
               apiKey |-> r.apiKey, provider |-> r.provider,
               t0 |-> clock, t1 |-> clock, key |-> r.cacheKey,
               pre |-> EntryBefore(cache, Text(r.text)),
               resp |-> IF llm.ok THEN JsonOk(llm.summary, FALSE)
                        ELSE JsonError(llm.message, 500),
               pending |-> FALSE, calls |-> r.calls,
               outcome |-> outcome,
               added |-> Added(cache, after),
               removed |-> Removed(cache, after),
               changed |-> Changed(cache, after)]
         /\ lastStore' =
              IF llm.ok
                THEN [k \in DOMAIN lastStore \cup {r.cacheKey} |->
                        IF k = r.cacheKey
                          THEN [summary |-> llm.summary, timestamp |-> clock,
                                text |-> r.text]
                          ELSE lastStore[k]]
                ELSE lastStore
         /\ served' =
              IF llm.ok
                THEN [served EXCEPT ![r.text] =
                        [present |-> TRUE, summary |-> llm.summary,
                         time |-> clock]]
                ELSE served
  /\ req' = req (-) SetToBag({r})
  /\ UNCHANGED <<clock, fetcherVars>>

\* the handler step that has just run is over: control is back in the event
\* loop, where the next request or upstream answer is taken up
Yield ==
  /\ last.op # "none"
  /\ last' = NoStep
  /\ UNCHANGED <<clock, cache, req, lastStore, served, fetcherVars>>

\* time passes
Advance ==
  /\ last.op = "none"
  /\ clock + Tick <= MaxClock
  /\ clock' = clock + Tick
  /\ lastStore' = RecentStores(lastStore, clock + Tick)
  /\ served' = RecentServed(served, clock + Tick)
  /\ UNCHANGED <<cache, req, last, fetcherVars>>

Next ==
  \/ /\ last.op = "none"
     /\ \E body \in Bodies, d \in {0, Tick} : POST_begin(body, d)
  \/ /\ last.op = "none"
     /\ \E r \in BagToSet(req), outcome \in UpstreamOutcomes :
          POST_resume(r, outcome)
  \/ Yield
  \/ Advance

Spec == Init /\ [][Next]_vars

(***************************************************************************)
(* Properties of the route.  They are stated over the handler step that    *)
(* has just run (last) and over what the handler would do in the current   *)
(* state.                                                                  *)
(***************************************************************************)
\* the request of the step passed no text: missing, not a string, or ""
NoText(text) == text.type # "string" \/ text.chars = <<>>

\* the request of the step passed no credential: missing or ""
NoCredential(apiKey) == apiKey.type = "undefined" \/ apiKey = Str("")

\* a request with a non-empty text has arrived and run to its first stop
BeganWithText == last.op = "begin" /\ last.parses /\ ~NoText(last.text)

\* the Map held an entry under the key of the text, younger than the TTL when
\* the handler looked at its age
LiveBefore ==
  last.pre.present /\ last.t1 - last.pre.timestamp < CACHE_DURATION

\* the step answered from the cache
HitServed ==
  last.op = "begin" /\ last.resp.status = 200 /\ last.resp.cached

\* the provider named by the request is none of the three dispatched on
UnknownProvider(provider) ==
  provider.type = "string" /\ provider.str \notin {"openai", "anthropic", "groq"}

\* C1: a request never returns a cache entry that is older than the TTL, the
\* age being counted from the moment the entry was stored: the entry served
\* is the one the most recent store under its key wrote, with the timestamp
\* of that store, whatever hits happened in between.
C1_NoStaleHit ==
  HitServed =>
    /\ last.pre.present
    /\ last.resp.summary = last.pre.summary
    /\ last.t1 - last.pre.timestamp <= CACHE_DURATION
    /\ last.key \in DOMAIN lastStore
    /\ lastStore[last.key].timestamp = last.pre.timestamp

\* a hit on an entry that is not new, served after an earlier hit's time
C1_Witness ==
  /\ HitServed
  /\ last.t1 - last.pre.timestamp = Tick
  /\ last.t1 > last.t0

\* C2: a request for a text whose key holds an entry younger than the TTL
\* returns that entry's summary with cached = true and makes no upstream
\* call, whatever its credential and its provider are.
C2_LiveHit ==
  (BeganWithText /\ LiveBefore) =>
    /\ last.resp = JsonOk(last.pre.summary, TRUE)
    /\ last.calls = 0
    /\ ~last.pending

\* a live hit of a request without credential and with an unknown provider
C2_Witness ==
  /\ BeganWithText
  /\ LiveBefore
  /\ last.apiKey = Undefined
  /\ UnknownProvider(last.provider)
  /\ last.resp.cached

\* C6: a request whose text is missing, not a string or the empty string is
\* rejected with the validation error and status 400 and makes no upstream
\* call, whatever the cache contains.
C6_TextRequired ==
  (last.op = "begin" /\ last.parses /\ NoText(last.text)) =>
    /\ last.resp = JsonError("Text is required", 400)
    /\ last.calls = 0
    /\ ~last.pending
    /\ last.added = {} /\ last.removed = {} /\ last.changed = {}

\* the empty string rejected while the cache holds an entry
C6_Witness ==
  /\ last.op = "begin"
  /\ last.text = Text(<<>>)
  /\ last.apiKey = Str("sk-test")
  /\ last.resp.status = 400
  /\ DOMAIN cache # {}

\* C7: a request with a non-empty text, no live entry under its key and no
\* credential (missing or "") fails with the API-key-required error and
\* makes no upstream call, whatever its provider is.
C7_KeyRequired ==
  (BeganWithText /\ ~LiveBefore /\ NoCredential(last.apiKey)) =>
    /\ last.resp =
         JsonError("API key is required. Please set it in Settings.", 400)
    /\ last.calls = 0
    /\ ~last.pending

\* an empty credential refused under an unknown provider, over a stale entry
C7_Witness ==
  /\ BeganWithText
  /\ last.pre.present
  /\ ~LiveBefore
  /\ last.apiKey = Str("")
  /\ UnknownProvider(last.provider)
  /\ last.resp.status = 400

\* C8: a request that reaches the dispatch (non-empty text, no live entry,
\* a credential) with a provider other than openai, anthropic and groq fails
\* with the error "Unsupported provider: <provider>", makes no upstream call
\* and adds no cache entry.
C8_UnsupportedProvider ==
  (/\ BeganWithText
   /\ ~LiveBefore
   /\ ~NoCredential(last.apiKey)
   /\ UnknownProvider(last.provider)) =>
    /\ last.resp.status >= 400
    /\ last.resp.error = "Unsupported provider: " \o last.provider.str
    /\ last.calls = 0
    /\ ~last.pending
    /\ last.added = {} /\ last.changed = {}

\* the provider "mistral" refused
C8_Witness ==
  /\ BeganWithText
  /\ ~NoCredential(last.apiKey)
  /\ last.provider = Str("mistral")
  /\ last.resp.error = "Unsupported provider: mistral"

\* the upstream call of a request has settled and its handler has finished
Resumed == last.op = "resume"

\* the record a store under the key of the step's text must have left
StoredNow ==
  /\ last.key \in DOMAIN cache
  /\ cache[last.key] = [summary |-> last.resp.summary, timestamp |-> last.t1]

\* a miss whose upstream call succeeded returns the summary with
\* cached = false and stores it under the key of the text with the time
MissStores ==
  (Resumed /\ last.outcome.kind = "ok" /\ last.resp.status = 200) =>
    /\ ~last.resp.cached
    /\ last.calls = 1
    /\ StoredNow

\* an earlier request for the text of the step has returned a summary with
\* cached = false, less than the TTL before the step looked at the age
ServedBefore ==
  /\ BeganWithText
  /\ served[last.text.chars].present
  /\ last.t1 - served[last.text.chars].time < CACHE_DURATION

\* C3 as stated: after a miss for T whose upstream call succeeded, a later
\* request for T within the TTL returns cached = true with exactly the
\* summary that request returned.
C3_Original ==
  /\ MissStores
  /\ ServedBefore =>
       last.resp = JsonOk(served[last.text.chars].summary, TRUE)

\* C3: a miss for T whose upstream call succeeded returns the summary with
\* cached = false and stores it under T's key with the time; a later request
\* for T within the TTL returns cached = true with the summary stored most
\* recently under T's key, which is the summary the first request returned
\* unless another request with the same key has stored since.
C3_StoreThenHit ==
  /\ MissStores
  /\ ServedBefore =>
       /\ last.key \in DOMAIN lastStore
       /\ last.resp = JsonOk(lastStore[last.key].summary, TRUE)
       /\ last.calls = 0
       /\ lastStore[last.key].timestamp >= served[last.text.chars].time
       /\ (lastStore[last.key].timestamp = served[last.text.chars].time
             /\ lastStore[last.key].text = last.text.chars)
            => last.resp.summary = served[last.text.chars].summary

\* a second request for a text, later than the first and within the TTL, is
\* answered from the cache with the summary the first returned
C3_Witness ==
  /\ ServedBefore
  /\ last.t0 > served[last.text.chars].time
  /\ last.resp = JsonOk(served[last.text.chars].summary, TRUE)
  /\ lastStore[last.key].text = last.text.chars

\* the hash of the key as h = h * 31 + charCode wrapped to 32 bits, computed
\* on two halves of 16 bits
RECURSIVE Poly31(_, _, _, _)
Poly31(text, i, hi, lo) ==
  IF i > Len(text) THEN <<hi, lo>>
  ELSE LET low == lo * 31 + text[i]
       IN  Poly31(text, i + 1, (hi * 31 + low \div 65536) % 65536, low % 65536)

\* the signed value of the two halves
Signed32(h) ==
  IF h[1] >= 32768 THEN (h[1] - 65536) * 65536 + h[2] ELSE h[1] * 65536 + h[2]

RECURSIVE Base36(_)
\* the digits in base 36 of n >= 0
Base36(n) ==
  IF n < 36 THEN Digit36(n) ELSE Base36(n \div 36) \o Digit36(n % 36)

\* the key of each text: the signed value rendered in base 36
PolyKey ==
  [t \in StringTexts |->
     LET n == Signed32(Poly31(t, 1, 0, 0))
     IN  IF n < 0 THEN "-" \o Base36(0 - n) ELSE Base36(n)]

\* C4 as stated: for all distinct texts T1 and T2, a hit served to a request
\* for T1 never returns a summary that was produced for T2.
C4_Original ==
  HitServed =>
    /\ last.key \in DOMAIN lastStore
    /\ lastStore[last.key].text = last.text.chars

\* C4: the key of a request is h = h * 31 + charCode wrapped to a signed
\* 32-bit integer, in base 36; for all texts T1 and T2 with different keys a
\* hit served to a request for T1 never returns a summary produced for T2
\* (texts with the same key share one entry).
C4_NoCrossKeyHit ==
  /\ BeganWithText => last.key = PolyKey[last.text.chars]
  /\ HitServed =>
       /\ last.key \in DOMAIN lastStore
       /\ last.resp.summary = lastStore[last.key].summary
       /\ PolyKey[lastStore[last.key].text] = PolyKey[last.text.chars]

\* a hit for a text while the cache holds an entry of a text with another key
C4_Witness ==
  /\ HitServed
  /\ lastStore[last.key].text = last.text.chars
  /\ \E k \in DOMAIN cache : k # last.key
  /\ \E t \in StringTexts : PolyKey[t] # PolyKey[last.text.chars]
                            /\ PolyKey[t] \in DOMAIN cache

\* the cache without the entry of a key
Without(c, key) == [k \in DOMAIN c \ {key} |-> c[k]]

\* the cache holds under the key of the text an entry older than the TTL
ExpiredFor(text) ==
  /\ PolyKey[text] \in DOMAIN cache
  /\ clock - cache[PolyKey[text]].timestamp > CACHE_DURATION

\* the entry of a key in a cache, if any
EntryOf(c, key) == IF key \in DOMAIN c THEN {c[key]} ELSE {}

\* C5: a request whose cache entry for the text is older than the TTL behaves
\* as the same request made with no entry under that key: the same response
\* or the same upstream call, and after every upstream outcome the same
\* entry under the key, for every credential and provider.
C5_ExpiredAsMissing ==
  \A text \in {t \in StringTexts : ExpiredFor(t)} :
    \A body \in {b \in Bodies : b.parses /\ b.text = Text(text)} :
      LET key == PolyKey[text]
          with == POSTSync(cache, body, clock, clock)
          without == POSTSync(Without(cache, key), body, clock, clock)
      IN  /\ with.resp = without.resp
          /\ with.pending = without.pending
          /\ with.cache = without.cache
          /\ ~with.resp.cached
          /\ \A outcome \in UpstreamOutcomes :
               LET llm == summarizeWithLLM(ResolveProvider(body.provider),
                                           outcome)
               IN  EntryOf(CacheAfterCall(with.cache, key, llm, clock), key)
                   = EntryOf(CacheAfterCall(without.cache, key, llm, clock),
                             key)

\* a request found an entry older than the TTL under its key and went on to
\* the upstream call
C5_Witness ==
  /\ BeganWithText
  /\ last.pre.present
  /\ last.t0 - last.pre.timestamp > CACHE_DURATION
  /\ last.key \in last.removed
  /\ last.pending

\* the step ended in an error response
Failed == last.op # "none" /\ last.resp.status >= 400

\* the step failed a validation: no text, no credential, unknown provider
ValidationFailure ==
  \/ last.op = "begin" /\ last.parses /\ NoText(last.text)
  \/ BeganWithText /\ ~LiveBefore /\ NoCredential(last.apiKey)
  \/ /\ BeganWithText
     /\ ~LiveBefore
     /\ ~NoCredential(last.apiKey)
     /\ UnknownProvider(last.provider)

\* C9: every validation failure (missing text, missing credential, unknown
\* provider) is answered with a client-error status, and every upstream or
\* unexpected failure with a server-error status.
C9_StatusClasses ==
  Failed =>
    IF ValidationFailure THEN last.resp.status \in 400..499
    ELSE last.resp.status \in 500..599

\* the messages a failed upstream call can leave in the response
UpstreamMessages(outcome) ==
  IF outcome.kind = "http" /\ outcome.body = "json"
     /\ outcome.field.type = "string"
    THEN {outcome.field.str}
    ELSE {"OpenAI API error", "Anthropic API error", "Groq API error",
          "Unknown error", "fetch failed"}

\* C10: when the upstream call of a request fails (non-OK response or network
\* error) the request ends with an error response carrying the upstream's
\* message or the generic fallback, exactly one upstream call was made for
\* it, and no cache entry is created or changed; entries are created or
\* changed only by a request that missed the cache and whose upstream call
\* succeeded, under the key of its text.
C10_FailureStoresNothing ==
  /\ (Resumed /\ last.outcome.kind \in {"http", "network"}) =>
       /\ last.resp.status = 500
       /\ last.resp.error \in UpstreamMessages(last.outcome)
       /\ last.calls = 1
       /\ last.added = {} /\ last.changed = {} /\ last.removed = {}
  /\ (last.added \cup last.changed # {}) =>
       /\ Resumed
       /\ last.outcome.kind = "ok"
       /\ last.resp.status = 200 /\ ~last.resp.cached
       /\ last.calls = 1
       /\ last.added \cup last.changed = {last.key}

\* a failed upstream call of a request whose key holds an entry, stored by a
\* request that was in flight at the same time
C10_Witness ==
  /\ Resumed
  /\ last.outcome.kind = "http"
  /\ last.resp = JsonError("Incorrect API key provided", 500)
  /\ last.pre.present
  /\ cache[last.key] = [summary |-> last.pre.summary,
                        timestamp |-> last.pre.timestamp]

\* C23: under any interleaving of concurrent requests, a step removes a
\* cache entry only as the sweep of an arriving request, and only an entry
\* older than the TTL; a step creates or overwrites an entry only as the
\* store of a request whose upstream call has settled, and only under the key
\* of that request's own text; every other entry is left as it was.
C23_OnlySweepRemoves ==
  [][/\ \A k \in DOMAIN cache \ DOMAIN cache' :
          /\ last'.op = "begin"
          /\ last'.parses /\ ~NoText(last'.text)
          /\ clock - cache[k].timestamp > CACHE_DURATION
     /\ \A k \in DOMAIN cache' :
          (k \notin DOMAIN cache \/ cache'[k] # cache[k]) =>
            /\ last'.op = "resume"
            /\ k = KeyTable[last'.text.chars]]_vars

\* a request stores over the entry under its key while another request is
\* in flight and the Map holds an entry under another key
C23_Witness ==
  /\ Resumed
  /\ last.changed = {last.key}
  /\ DOMAIN cache \ {last.key} # {}
  /\ BagCardinality(req) > 0

\* C24: there is no single-flight de-duplication.  A request with a text, a
\* credential and a supported provider that finds no live entry makes its
\* own upstream call, also while a request for the same text is in flight;
\* and every request whose upstream call succeeded returns cached = false
\* after exactly one call of its own.
C24_NoSingleFlight ==
  /\ (/\ BeganWithText
      /\ ~LiveBefore
      /\ ~NoCredential(last.apiKey)
      /\ ~UnknownProvider(last.provider)) =>
       /\ last.pending
       /\ last.calls = 1
       /\ \E r \in BagToSet(req) :
            r.text = last.text.chars /\ r.apiKey = last.apiKey
  /\ (Resumed /\ last.resp.status = 200) =>
       /\ ~last.resp.cached
       /\ last.calls = 1

\* two requests for the same uncached text, both with a credential, have
\* both missed the cache and are both at their upstream call
C24_Witness ==
  /\ BeganWithText
  /\ last.pending
  /\ last.key \notin DOMAIN cache
  /\ \E r \in BagToSet(req) :
       /\ CopiesIn(r, req) = 2
       /\ r.text = last.text.chars
       /\ ~NoCredential(r.apiKey)
       /\ r.calls = 1

\* C25: the cache holds one entry per key at most (it is a Map); a request
\* whose upstream call succeeded leaves under its key its own summary with
\* the time of its completion, whatever entry a concurrent request had left
\* there, so that the entry is the one of the request that completed last;
\* and a hit returns the summary of the entry the Map holds.
C25_LastCompleterWins ==
  /\ (Resumed /\ last.resp.status = 200) =>
       /\ last.key \in DOMAIN cache
       /\ cache[last.key] =
            [summary |-> last.resp.summary, timestamp |-> clock]
       /\ lastStore[last.key] =
            [summary |-> last.resp.summary, timestamp |-> clock,
             text |-> last.text.chars]
  /\ HitServed =>
       /\ last.key \in DOMAIN lastStore
       /\ last.resp.summary = lastStore[last.key].summary
       /\ last.t1 - lastStore[last.key].timestamp < CACHE_DURATION

\* the second of two concurrent requests for one text completes and writes
\* its summary over the other summary, which the first had stored
C25_Witness ==
  /\ Resumed
  /\ last.resp.status = 200
  /\ last.text = Text(TextAI)
  /\ last.pre.present
  /\ clock - last.pre.timestamp < CACHE_DURATION
  /\ last.pre.summary # last.resp.summary
  /\ cache[last.key].summary = last.resp.summary

(***************************************************************************)
(* The GitHub route (GET /api/github): six topic queries in a fixed order, *)
(* merged by full_name, filtered by topic, sorted by stars and capped.     *)
(***************************************************************************)
\* the topics of the queries, in the order of the list
queries ==
  <<"AI", "machine-learning", "artificial-intelligence", "deep-learning",
    "llm", "nlp">>

\* per_page=30: the most items one query returns
PerPage == 30

\* .slice(0, 50)
TopLimit == 50

\* an item of the search API; description and language "" stand for null,
\* hasTopics FALSE for an item without topics
Repo(id, fullName, stars, hasTopics, topics) ==
  [id |-> id, full_name |-> fullName, description |-> "",
   html_url |-> "https://github.com/" \o fullName,
   stargazers_count |-> stars, language |-> "",
   hasTopics |-> hasTopics, topics |-> topics]

\* the repository every query can return, with the stars it has by then
SharedRepo(q) == Repo(1, "org/shared", 500 + q, TRUE, <<"AI", "python">>)
\* a repository only query q returns
OwnRepo(q) == Repo(10 + q, "org/own" \o ToString(q), 40 + q, TRUE, <<"ML">>)
\* repositories the topic filter decides on
RustRepo == Repo(2, "org/tool", 900, TRUE, <<"rust">>)
MailRepo == Repo(3, "org/mail", 5, TRUE, <<"Email">>)
BareRepo == Repo(4, "org/bare", 700, FALSE, <<>>)

\* a short result page of query q; it names the shared repository twice
SmallPage(q) ==
  <<OwnRepo(q), SharedRepo(q), RustRepo, MailRepo, BareRepo,
    [SharedRepo(q) EXCEPT !.stargazers_count = 1]>>

\* a full result page of query q, with many equal star counts
BigPage(q) ==
  [i \in 1..PerPage |->
     Repo(100 * q + i, "big" \o ToString(q) \o "/r" \o ToString(i),
          20 + ((i * 7 + q * 3) % 40), TRUE, <<"LLM">>)]

Rejected == [kind |-> "rejected", items |-> <<>>]
NotOk == [kind |-> "http", items |-> <<>>]
Unreadable == [kind |-> "unreadable", items |-> <<>>]
Page(items) == [kind |-> "ok", items |-> items]

\* What the search API can answer to query q: the fetch is rejected, the
\* status is not OK, the body cannot be read, or a page of items.  Every
\* query can fail and can succeed; the first three fail in each of the three
\* ways, the first two can return no item or a full page.
GitHubAnswers(q) ==
  {Rejected, Page(SmallPage(q))}
  \cup (IF q <= 3 THEN {NotOk, Unreadable} ELSE {})
  \cup (IF q <= 2 THEN {Page(<<>>), Page(BigPage(q))} ELSE {})

\* allRepos.has(name)
MapHas(m, name) == \E i \in 1..Len(m) : m[i].full_name = name

\* the k-th smallest element of a set of numbers
KthSmallest(S, k) ==
  CHOOSE i \in S : Cardinality({j \in S : j < i}) = k - 1

\* the merge without the has() test: a later item replaces the entry of its
\* name (a Map keeps the place of the first insertion)
MergeReposLastWins(m, repos) ==
  LET latest(name) ==
        repos[CHOOSE i \in 1..Len(repos) :
                /\ repos[i].full_name = name
                /\ \A j \in (i + 1)..Len(repos) : repos[j].full_name # name]
      new == {i \in 1..Len(repos) :
                /\ ~MapHas(m, repos[i].full_name)
                /\ \A j \in 1..(i - 1) :
                     repos[j].full_name # repos[i].full_name}
  IN  [k \in 1..Len(m) |->
         IF \E i \in 1..Len(repos) : repos[i].full_name = m[k].full_name
           THEN latest(m[k].full_name) ELSE m[k]]
      \o [k \in 1..Cardinality(new) |->
            latest(repos[KthSmallest(new, k)].full_name)]

\* repos.forEach: an item is set into the Map unless the Map has its name
\* already, from an earlier query or from an earlier item of this page
MergeRepos(m, repos) ==
  LET new == {i \in 1..Len(repos) :
                /\ ~MapHas(m, repos[i].full_name)
                /\ \A j \in 1..(i - 1) :
                     repos[j].full_name # repos[i].full_name}
  IN  m \o [k \in 1..Cardinality(new) |-> repos[KthSmallest(new, k)]]

\* one round of the loop: a failed query is skipped, a page is merged
MergeQuery(m, answer) ==
  IF answer.kind = "ok" THEN MergeRepos(m, answer.items) ELSE m

\* a loop that a failed query ends: break instead of continue
NextQueryBreak(index, answer) ==
  IF answer.kind = "ok" THEN index + 1 ELSE Len(queries) + 1

\* where the loop goes after a round: continue, to the next query
NextQuery(index, answer) == index + 1

\* String.prototype.toLowerCase, on the letters A to Z
LowerChar(c) ==
  LET upper == "ABCDEFGHIJKLMNOPQRSTUVWXYZ"
      lower == "abcdefghijklmnopqrstuvwxyz"
  IN  IF \E i \in 1..26 : SubSeq(upper, i, i) = c
        THEN SubSeq(lower, (CHOOSE i \in 1..26 : SubSeq(upper, i, i) = c),
                    (CHOOSE i \in 1..26 : SubSeq(upper, i, i) = c))
        ELSE c

RECURSIVE toLowerCase(_)
toLowerCase(str) ==
  IF str = "" THEN ""
  ELSE LowerChar(SubSeq(str, 1, 1)) \o toLowerCase(SubSeq(str, 2, Len(str)))

RECURSIVE JoinLower(_)
\* topics.map((t) => t.toLowerCase()).join(' ')
JoinLower(topics) ==
  IF topics = <<>> THEN ""
  ELSE IF Len(topics) = 1 THEN toLowerCase(topics[1])
  ELSE toLowerCase(topics[1]) \o " " \o JoinLower(Tail(topics))

\* String.prototype.includes
Includes(str, part) ==
  \E i \in 1..(Len(str) - Len(part) + 1) :
    SubSeq(str, i, i + Len(part) - 1) = part

\* the filter: the joined topics include one of the eight markers
HasAiTopic(repo) ==
  LET topicLower == JoinLower(IF repo.hasTopics THEN repo.topics ELSE <<>>)
  IN  \E marker \in {"ai", "machine-learning", "artificial-intelligence",
                     "ml", "deep-learning", "neural-network", "llm", "nlp"} :
        Includes(topicLower, marker)

\* the Project of a repository
RepoProject(repo) ==
  [id |-> ToString(repo.id), name |-> repo.full_name,
   description |-> IF repo.description = "" THEN "No description available"
                   ELSE repo.description,
   url |-> repo.html_url, stars |-> repo.stargazers_count,
   language |-> IF repo.language = "" THEN "Unknown" ELSE repo.language,
   topics |-> IF repo.hasTopics THEN repo.topics ELSE <<>>,
   source |-> "github"]

\* the places under the comparator a.stars - b.stars
StarRanksAscending(list) ==
  [i \in 1..Len(list) |->
     Cardinality({j \in 1..Len(list) :
                    \/ list[j].stars < list[i].stars
                    \/ list[j].stars = list[i].stars /\ j < i}) + 1]

\* the place of each element under the comparator b.stars - a.stars of a
\* stable sort: after those with more stars and the earlier ones with as many
StarRanks(list) ==
  [i \in 1..Len(list) |->
     Cardinality({j \in 1..Len(list) :
                    \/ list[j].stars > list[i].stars
                    \/ list[j].stars = list[i].stars /\ j < i}) + 1]

\* the list with each element at its place
Arrange(list, rank) ==
  [k \in 1..Len(list) |-> list[CHOOSE i \in 1..Len(list) : rank[i] = k]]

\* .sort((a, b) => b.stars - a.stars)
SortByStars(list) == Arrange(list, StarRanks(list))

\* .slice(0, n)
Slice(list, n) == SubSeq(list, 1, IF Len(list) < n THEN Len(list) ELSE n)

\* lines 89-116: filter, map, sort, slice
TopProjects(repos) ==
  LET kept == SelectSeq(repos, HasAiTopic)
      mapped == [i \in 1..Len(kept) |-> RepoProject(kept[i])]
  IN  Slice(SortByStars(mapped), TopLimit)

\* NextResponse.json({ projects, count: projects.length })
RouteOk(list) ==
  [status |-> 200, error |-> "", projects |-> list, count |-> Len(list)]

\* a request arrives: the Map is created and the loop starts
GitHubGET ==
  /\ queryIndex = 0
  /\ queryIndex' = 1
  /\ allRepos' = <<>>
  /\ ghTrace' = <<>>
  /\ UNCHANGED <<ghResponse, summarizeVars, hubVars, pageVars>>

\* one round of the loop: the query at queryIndex is answered
GitHubQuery(answer) ==
  /\ queryIndex \in 1..Len(queries)
  /\ allRepos' = MergeQuery(allRepos, answer)
  /\ ghTrace' = Append(ghTrace, answer)
  /\ queryIndex' = NextQuery(queryIndex, answer)
  /\ UNCHANGED <<ghResponse, summarizeVars, hubVars, pageVars>>

\* after the loop: the list is built and the handler responds
GitHubRespond ==
  /\ queryIndex = Len(queries) + 1
  /\ ghResponse = NoRouteResponse
  /\ ghResponse' = RouteOk(TopProjects(allRepos))
  /\ UNCHANGED <<queryIndex, allRepos, ghTrace, summarizeVars, hubVars, pageVars>>

GitHubNext ==
  \/ GitHubGET
  \/ \E answer \in GitHubAnswers(queryIndex) : GitHubQuery(answer)
  \/ GitHubRespond

GitHubSpec == Init /\ [][GitHubNext]_vars

(***************************************************************************)
(* The Hugging Face route (GET /api/huggingface): one query for spaces,    *)
(* guarded by a timer that aborts the fetch.                               *)
(***************************************************************************)
\* the most items the Hub lists in one answer of the model
MaxSpaces == 2

\* An item of the Hub's answer.  A field that is "" or 0 is absent; a
\* description that is not a string is marked by badDescription.
Space(id, name, likes, likeCount, description, badDescription) ==
  [id |-> id, name |-> name, likes |-> likes, likeCount |-> likeCount,
   like_count |-> 0, description |-> description,
   short_description |-> "", card_description |-> "", title |-> "",
   badDescription |-> badDescription, sdk |-> "", card_sdk |-> ""]

SpaceItems ==
  {Space("a_b/c", "", 5, 0, "chat demo", FALSE),
   Space("a/b_c", "", 3, 0, "", FALSE),
   Space("c/d", "", 0, 7, "", FALSE),
   Space("", "e/f", 2, 0, "", FALSE),
   Space("g/h", "", 0, 0, "", FALSE),
   Space("", "", 4, 0, "", FALSE),
   Space("i/j", "", 5, 0, "", TRUE)}

RECURSIVE SeqsUpTo(_, _)
\* the sequences of at most n elements of S
SeqsUpTo(S, n) ==
  IF n = 0 THEN {<<>>}
  ELSE LET shorter == SeqsUpTo(S, n - 1)
       IN  shorter \cup {Append(q, x) : q \in shorter, x \in S}

\* What the Hub can do with the request.
\*   headers  "never": no response arrives; "rejected": the fetch fails;
\*            "ok" / "http": a response with an OK / a non-OK status arrives
\*   body     "json": the body is the array spaces; "unreadable": reading
\*            it fails; "never": the body never ends
Upstreams ==
  [headers : {"never", "rejected"}, body : {"none"}, spaces : {<<>>}]
  \cup [headers : {"http"}, body : {"json", "unreadable", "never"},
        spaces : {<<>>}]
  \cup [headers : {"ok"}, body : {"unreadable", "never"}, spaces : {<<>>}]
  \cup [headers : {"ok"}, body : {"json"},
        spaces : SeqsUpTo(SpaceItems, MaxSpaces)]

RECURSIVE ReplaceSlashes(_)
\* spaceId.replace(/\//g, '_')
ReplaceSlashes(str) ==
  IF str = "" THEN ""
  ELSE (IF SubSeq(str, 1, 1) = "/" THEN "_" ELSE SubSeq(str, 1, 1))
       \o ReplaceSlashes(SubSeq(str, 2, Len(str)))

RECURSIVE BeforeSlash(_)
\* spaceId.split('/')[0]
BeforeSlash(str) ==
  IF str = "" \/ SubSeq(str, 1, 1) = "/" THEN ""
  ELSE SubSeq(str, 1, 1) \o BeforeSlash(SubSeq(str, 2, Len(str)))

\* a || b for strings
OrElse(a, b) == IF a # "" THEN a ELSE b

\* space.id || space.name || ''
SpaceId(space) == OrElse(space.id, space.name)

\* space.likes || space.likeCount || space.like_count || 0
SpaceLikes(space) ==
  IF space.likes # 0 THEN space.likes
  ELSE IF space.likeCount # 0 THEN space.likeCount
  ELSE space.like_count

\* the description of lines 61-66
SpaceDescription(space) ==
  OrElse(space.description,
    OrElse(space.short_description,
      OrElse(space.card_description, OrElse(space.title, space.id))))

\* whether the callback of forEach pushes a project for the space: the
\* description can be lowercased, likes > 0 and spaceId is not empty
SpaceKept(space) ==
  /\ ~space.badDescription
  /\ SpaceLikes(space) > 0
  /\ SpaceId(space) # ""

\* the project pushed for a space
SpaceProject(space) ==
  [id |-> "hf_space_" \o ReplaceSlashes(SpaceId(space)),
   name |-> SpaceId(space),
   description |->
     OrElse(SpaceDescription(space),
            "Interactive AI demo by "
              \o OrElse(BeforeSlash(SpaceId(space)), "Hugging Face")),
   url |-> "https://huggingface.co/spaces/" \o SpaceId(space),
   stars |-> SpaceLikes(space),
   language |-> OrElse(space.sdk, OrElse(space.card_sdk, "Gradio")),
   topics |-> <<"space", "demo", "ai">>,
   source |-> "huggingface_spaces"]

\* spaces.forEach: allProjects after the loop
SpaceProjects(spaces) ==
  LET kept == SelectSeq(spaces, SpaceKept)
  IN  [i \in 1..Len(kept) |-> SpaceProject(kept[i])]

\* NextResponse.json({ error, projects: [] }, { status: 500 })
RouteError(message) ==
  [status |-> 500, error |-> message, projects |-> <<>>, count |-> -1]

\* a handler without the inner try: a failed upstream call reaches the
\* outer catch
HubResultUncaught(outcome, spaces) ==
  IF outcome = "ok"
    THEN RouteOk(SortByStars(SpaceProjects(spaces)))
    ELSE RouteError("Failed to fetch Hugging Face content")

\* the response of the handler once the upstream call has ended: the spaces
\* of an OK answer sorted by stars; an empty list after a timeout, a
\* rejected fetch, a non-OK status or an unreadable body
HubResult(outcome, spaces) ==
  IF outcome = "ok"
    THEN RouteOk(SortByStars(SpaceProjects(spaces)))
    ELSE RouteOk(<<>>)

\* a request arrives: the timer is set and the fetch starts
HubGET(u) ==
  /\ hubPc = "idle"
  /\ hubPc' = "fetching"
  /\ timeoutId' = "armed"
  /\ upstream' = u
  /\ UNCHANGED <<hubOutcome, hubResponse, summarizeVars, githubVars, pageVars>>

\* the fetch is rejected: the inner catch takes over and the handler
\* responds; the timer stays set
HubFetchRejected ==
  /\ hubPc = "fetching"
  /\ upstream.headers = "rejected"
  /\ hubOutcome' = "rejected"
  /\ hubResponse' = HubResult("rejected", <<>>)
  /\ hubPc' = "done"
  /\ UNCHANGED <<timeoutId, upstream, summarizeVars, githubVars, pageVars>>

\* the fetch resolves with a response: the timer is cleared and the handler
\* reads the body (json() of an OK response, text() of another)
HubFetchResolved ==
  /\ hubPc = "fetching"
  /\ upstream.headers \in {"ok", "http"}
  /\ timeoutId' = "cleared"
  /\ hubPc' = "body"
  /\ UNCHANGED <<upstream, hubOutcome, hubResponse, summarizeVars, githubVars, pageVars>>

\* the timer fires: controller.abort() rejects a fetch that is pending, and
\* the inner catch takes over; otherwise nothing happens
HubTimeout ==
  /\ timeoutId = "armed"
  /\ timeoutId' = "fired"
  /\ IF hubPc = "fetching"
       THEN /\ hubOutcome' = "timeout"
            /\ hubResponse' = HubResult("timeout", <<>>)
            /\ hubPc' = "done"
       ELSE UNCHANGED <<hubOutcome, hubResponse, hubPc>>
  /\ UNCHANGED <<upstream, summarizeVars, githubVars, pageVars>>

\* the body has been read, or reading it has failed: the handler responds
HubBodyRead ==
  /\ hubPc = "body"
  /\ upstream.body \in {"json", "unreadable"}
  /\ LET outcome == IF upstream.headers = "http" THEN "http"
                    ELSE IF upstream.body = "unreadable" THEN "unreadable"
                    ELSE "ok"
     IN  /\ hubOutcome' = outcome
         /\ hubResponse' = HubResult(outcome, upstream.spaces)
  /\ hubPc' = "done"
  /\ UNCHANGED <<timeoutId, upstream, summarizeVars, githubVars, pageVars>>

HubNext ==
  \/ \E u \in Upstreams : HubGET(u)
  \/ HubFetchRejected
  \/ HubFetchResolved
  \/ HubTimeout
  \/ HubBodyRead

HubSpec == Init /\ [][HubNext]_vars

(***************************************************************************)
(* Properties of the GitHub route.                                         *)
(***************************************************************************)
\* the handler has responded
GitHubResponded == ghResponse # NoRouteResponse

\* the queries answered so far with a page
OkQueries == {i \in 1..Len(ghTrace) : ghTrace[i].kind = "ok"}

\* the items of the pages answered so far
OkItems ==
  UNION {{ghTrace[i].items[k] : k \in 1..Len(ghTrace[i].items)} :
           i \in OkQueries}

\* the version of a name that the earliest page naming it lists first
FirstVersion(name) ==
  LET naming == {i \in OkQueries :
                   \E k \in 1..Len(ghTrace[i].items) :
                     ghTrace[i].items[k].full_name = name}
      page == ghTrace[CHOOSE i \in naming : \A j \in naming : i <= j].items
      at == {k \in 1..Len(page) : page[k].full_name = name}
  IN  page[CHOOSE k \in at : \A l \in at : k <= l]

\* the names a page has listed so far
NamesListed == {item.full_name : item \in OkItems}

\* the names listed whose first version passes the topic filter
NamesOnTopic == {n \in NamesListed : HasAiTopic(FirstVersion(n))}

ResponseNames ==
  {ghResponse.projects[i].name : i \in 1..Len(ghResponse.projects)}

\* C13: when every one of the six queries fails, the response carries an
\* empty project list together with an error indicator, and the handler
\* responds (no exception escapes it).
C13_AllFailedReported ==
  (GitHubResponded /\ OkQueries = {}) =>
    /\ ghResponse.projects = <<>>
    /\ ghResponse.error # ""

\* C14: a query that fails (rejected request, non-OK status, unreadable
\* body) is skipped and the remaining queries are still attempted; whichever
\* queries fail, the response is the successful one built from exactly the
\* items of the queries that succeeded.
C14_FailedQueriesSkipped ==
  /\ queryIndex > 0 => Len(ghTrace) = queryIndex - 1
  /\ GitHubResponded =>
       /\ Len(ghTrace) = Len(queries)
       /\ ghResponse.status = 200
       /\ ghResponse.error = ""
       /\ ResponseNames \subseteq NamesOnTopic
       /\ Len(ghResponse.projects) < TopLimit => ResponseNames = NamesOnTopic
       /\ \A i \in 1..Len(ghResponse.projects) :
            \E item \in OkItems :
              /\ item.full_name = ghResponse.projects[i].name
              /\ item.stargazers_count = ghResponse.projects[i].stars

\* queries failed in each of the three ways, before and after a query that
\* succeeded, and the items of that one are in the response
C14_Witness ==
  /\ GitHubResponded
  /\ {ghTrace[i].kind : i \in 1..3} = {"rejected", "http", "unreadable"}
  /\ ghTrace[4].kind = "ok"
  /\ ghTrace[5].kind = "rejected"
  /\ ghTrace[6].kind = "ok"
  /\ {"org/own4", "org/own6", "org/shared"} \subseteq ResponseNames

\* C15: the queries are merged by full_name in the order of the list, the
\* first occurrence winning: the merged set holds exactly one entry for each
\* name a page has listed, equal to the version of the earliest query that
\* returned it, and the response carries that version.
C15_FirstOccurrenceWins ==
  /\ \A i, j \in 1..Len(allRepos) :
       allRepos[i].full_name = allRepos[j].full_name => i = j
  /\ {allRepos[i].full_name : i \in 1..Len(allRepos)} = NamesListed
  /\ \A i \in 1..Len(allRepos) :
       allRepos[i] = FirstVersion(allRepos[i].full_name)
  /\ GitHubResponded =>
       \A i, j \in 1..Len(ghResponse.projects) :
         /\ ghResponse.projects[i].name = ghResponse.projects[j].name => i = j
         /\ ghResponse.projects[i].stars =
              FirstVersion(ghResponse.projects[i].name).stargazers_count

\* the second and the fourth query both return the shared repository, with
\* different stars, and the response carries the second query's version
C15_Witness ==
  /\ GitHubResponded
  /\ ghTrace[1].kind # "ok"
  /\ ghTrace[2] = Page(SmallPage(2))
  /\ ghTrace[4] = Page(SmallPage(4))
  /\ \E i \in 1..Len(ghResponse.projects) :
       /\ ghResponse.projects[i].name = "org/shared"
       /\ ghResponse.projects[i].stars = SharedRepo(2).stargazers_count

\* C16: the returned projects are in non-increasing order of stars, at most
\* 50, the highest-starred items of the deduplicated and topic-filtered set,
\* and count is the length of the list.
C16_TopFiftyByStars ==
  GitHubResponded =>
    LET list == ghResponse.projects
        onTopic == {i \in 1..Len(allRepos) : HasAiTopic(allRepos[i])}
    IN  /\ \A i \in 1..(Len(list) - 1) : list[i].stars >= list[i + 1].stars
        /\ Len(list) <= 50
        /\ Len(list) = IF Cardinality(onTopic) < 50 THEN Cardinality(onTopic)
                       ELSE 50
        /\ ghResponse.count = Len(list)
        /\ \A i \in 1..Len(list) :
             \E k \in onTopic : list[i] = RepoProject(allRepos[k])
        /\ \A k \in onTopic :
             \/ \E i \in 1..Len(list) : list[i].name = allRepos[k].full_name
             \/ \A i \in 1..Len(list) :
                  list[i].stars >= allRepos[k].stargazers_count
        /\ {"org/tool", "org/bare"} \cap ResponseNames = {}

\* more than 50 repositories pass the filter: 50 are returned, one with as
\* many stars as the last of them is left out
C16_Witness ==
  /\ GitHubResponded
  /\ Len(ghResponse.projects) = 50
  /\ ghResponse.count = 50
  /\ Len(allRepos) > 60
  /\ \E k \in 1..Len(allRepos) :
       /\ allRepos[k].full_name \notin ResponseNames
       /\ allRepos[k].stargazers_count = ghResponse.projects[50].stars
       /\ HasAiTopic(allRepos[k])
  /\ "org/mail" \in {allRepos[k].full_name : k \in 1..Len(allRepos)}

(***************************************************************************)
(* Properties of the Hugging Face route.                                   *)
(***************************************************************************)
\* the handler waits for the Hub and no step of the handler, the timer or
\* the Hub is possible
HubStuck == hubPc \in {"fetching", "body"} /\ ~ENABLED HubNext

UpstreamNeverFinishes ==
  upstream.headers = "never" \/ upstream.body = "never"

\* C18: the upstream call is bounded by the 10-second timer: whenever the
\* upstream never finishes, the timer is still set while the handler waits
\* for it, so that it fires, aborts the call and lets the handler return.
C18_TimerBoundsUpstream ==
  (hubPc \in {"fetching", "body"} /\ UpstreamNeverFinishes) =>
    /\ timeoutId = "armed"
    /\ ENABLED HubTimeout

\* the items of the answer that carry an id
WithId == {i \in 1..Len(upstream.spaces) : upstream.spaces[i].id # ""}

\* C19: the identifiers of the projects of one batch are pairwise distinct
\* whenever the ids of the upstream items are pairwise distinct.
C19_DistinctIdentifiers ==
  (/\ hubPc = "done"
   /\ WithId = 1..Len(upstream.spaces)
   /\ \A i, j \in WithId :
        upstream.spaces[i].id = upstream.spaces[j].id => i = j) =>
    \A i, j \in 1..Len(hubResponse.projects) :
      hubResponse.projects[i].id = hubResponse.projects[j].id => i = j

(***************************************************************************)
(* The page (Home): fetchProjects calls both routes, merges their lists    *)
(* and sorts them by stars; the grid shows one card (NewsCard) per project *)
(* and a card asks for a summary when its button is clicked.               *)
(***************************************************************************)
\* the summarize calls that can be in flight at once
MaxCalls == 2

\* a project of a route's list
Item(id, name, stars, source) ==
  [id |-> id, name |-> name, description |-> "About " \o name,
   url |-> "https://example.org/" \o name, stars |-> stars,
   language |-> "Unknown", topics |-> <<"ai">>, source |-> source]

\* the list /api/github answers with when it has found projects, sorted by
\* stars
GitHubLists ==
  {<<Item("11", "org/own1", 50, "github"), Item("1", "org/shared", 30, "github")>>}

\* the list /api/huggingface answers with when it has found projects,
\* sorted by stars; one project has the name and the stars of a GitHub
\* project
HubLists ==
  {<<Item("hf_space_c_d", "c/d", 60, "huggingface_spaces"),
     Item("hf_space_org_shared", "org/shared", 30, "huggingface_spaces")>>}

\* What a route call can end in: the request is rejected; a response with
\* a non-OK status; an OK response whose body carries a list of projects, or
\* carries none.
RouteRejected == [kind |-> "rejected", hasProjects |-> FALSE, projects |-> <<>>]
RouteNotOk == [kind |-> "http", hasProjects |-> TRUE, projects |-> <<>>]
RouteAnswers(lists) ==
  {RouteRejected, RouteNotOk,
   [kind |-> "ok", hasProjects |-> FALSE, projects |-> <<>>]}
  \cup [kind : {"ok"}, hasProjects : {TRUE}, projects : lists]

\* response.ok ? await response.json() : { projects: [] }, then
\* data.projects || []
ProjectsOf(answer) ==
  IF answer.kind = "ok" /\ answer.hasProjects THEN answer.projects ELSE <<>>

\* the state the run leaves once Promise.all has settled:
\* lines 37-59, with the answers of the two routes
RunResult(github, hub, before) ==
  IF github.kind = "rejected" \/ hub.kind = "rejected" THEN
    [projects |-> before, error |-> <<"Failed to fetch">>]
  ELSE IF github.kind # "ok" /\ hub.kind # "ok" THEN
    [projects |-> before, error |-> <<"Failed to fetch projects">>]
  ELSE
    [projects |-> SortByStars(ProjectsOf(github) \o ProjectsOf(hub)),
     error |-> Null]

\* Promise.all has settled: a request is rejected or both have arrived
Settled(seen) ==
  \/ \E src \in seen : routes[src].kind = "rejected"
  \/ seen = {"github", "hub"}

\* the keys of the cards of a list
Ids(list) == {list[i].id : i \in 1..Len(list)}

\* the project a card was given
ProjectOf(list, id) ==
  CHOOSE p \in {list[i] : i \in 1..Len(list)} : p.id = id

\* a card as it is mounted: isSummarizing = false, and summary =
\* project.summary || null (no route sets project.summary)
NewCard == [isSummarizing |-> FALSE, summary |-> Null]

\* the cards on the page: the grid is rendered when
\* !loading && projects.length > 0, one card per project
Grid(isLoading, list) ==
  IF ~isLoading /\ list # <<>> THEN [id \in Ids(list) |-> NewCard]
  ELSE NoCards

\* the cards are unmounted: the calls in flight were made by cards that are
\* no longer on the page
Unmount(bag) ==
  LET copies(e) == IF e \in DOMAIN bag THEN bag[e] ELSE 0
  IN  [x \in {[e EXCEPT !.mounted = FALSE] : e \in DOMAIN bag} |->
         copies(x) + copies([x EXCEPT !.mounted = TRUE])]

\* the request with the text of the project's name
SummarizeBodyName(project) == [text |-> project.name]

\* the body of the request of handleSummarize (its text)
SummarizeBody(project) == [text |-> project.description]

\* What the call of /api/summarize can end in: the request is rejected, a
\* response with a non-OK status, an OK response with a summary.
SummarizeAnswers ==
  {[kind |-> "rejected", summary |-> ""],
   [kind |-> "http", summary |-> ""],
   [kind |-> "ok", summary |-> "s1"]}

\* the message of the alert
AlertMessage == "Failed to summarize. Please check your API key in Settings."

\* setSummary(data.summary), then finally
CardAfterSuccess(card, data) ==
  [isSummarizing |-> FALSE, summary |-> <<data.summary>>]

\* the failure that leaves the card in progress
CardAfterFailureStuck(card) == card

\* catch and finally: setIsSummarizing(false)
CardAfterFailure(card) == [card EXCEPT !.isSummarizing = FALSE]

\* a run that starts without setLoading(true)
FetchProjectsUnflagged(github, hub) ==
  /\ ~loading
  /\ running' = running + 1
  /\ loading' = loading
  /\ error' = Null
  /\ cleared' = error
  /\ routes' = [github |-> github, hub |-> hub]
  /\ arrived' = {}
  /\ cards' = cards
  /\ calls' = calls
  /\ cardLast' = NoCardStep
  /\ UNCHANGED <<projects, summarizeVars, githubVars, hubVars>>

\* the user clicks Fetch Projects (the button is disabled while loading);
\* while loading the grid is not rendered
FetchProjects(github, hub) ==
  /\ ~loading
  /\ running' = running + 1
  /\ loading' = TRUE
  /\ error' = Null
  /\ cleared' = error
  /\ routes' = [github |-> github, hub |-> hub]
  /\ arrived' = {}
  /\ cards' = Grid(TRUE, projects)
  /\ calls' = Unmount(calls)
  /\ cardLast' = NoCardStep
  /\ UNCHANGED <<projects, summarizeVars, githubVars, hubVars>>

\* the call of a route ends; when that settles Promise.all the run goes on
\* to its end: the list or the error is set and loading is reset
RouteSettles(src) ==
  /\ running > 0
  /\ src \notin arrived
  /\ arrived' = arrived \cup {src}
  /\ IF Settled(arrived \cup {src})
       THEN LET result == RunResult(routes.github, routes.hub, projects)
            IN  /\ projects' = result.projects
                /\ error' = IF result.error = Null THEN error ELSE result.error
                /\ loading' = FALSE
                /\ running' = running - 1
                /\ cards' = Grid(FALSE, result.projects)
       ELSE UNCHANGED <<projects, error, loading, running, cards>>
  /\ cardLast' = NoCardStep
  /\ UNCHANGED <<routes, cleared, calls, summarizeVars, githubVars, hubVars>>

\* the user clicks Summarize on the card of a project: the button is
\* rendered when !summary and disabled while isSummarizing
Summarize(id) ==
  /\ id \in DOMAIN cards
  /\ cards[id].summary = Null
  /\ ~cards[id].isSummarizing
  /\ BagCardinality(calls) < MaxCalls
  /\ cards' = [cards EXCEPT ![id].isSummarizing = TRUE]
  /\ calls' = calls (+) SetToBag({
       [id |-> id, text |-> SummarizeBody(ProjectOf(projects, id)).text,
        mounted |-> TRUE]})
  /\ cardLast' = [op |-> "click", id |-> id, before |-> cards[id].summary,
                  alert |-> "", mounted |-> TRUE]
  /\ UNCHANGED <<projects, loading, error, running, routes, arrived, cleared,
                 summarizeVars, githubVars, hubVars>>

\* the call of /api/summarize of a card ends and handleSummarize runs to its
\* end; the state of a card that is no longer on the page is not touched
SummarizeSettles(call, answer) ==
  /\ BagIn(call, calls)
  /\ calls' = calls (-) SetToBag({call})
  /\ cards' =
       IF call.mounted
         THEN [cards EXCEPT ![call.id] =
                 IF answer.kind = "ok" THEN CardAfterSuccess(@, answer)
                 ELSE CardAfterFailure(@)]
         ELSE cards
  /\ cardLast' =
       [op |-> IF answer.kind = "ok" THEN "ok" ELSE "failed",
        id |-> call.id,
        before |-> IF call.mounted THEN cards[call.id].summary ELSE Null,
        alert |-> IF answer.kind = "ok" THEN "" ELSE AlertMessage,
        mounted |-> call.mounted]
  /\ UNCHANGED <<projects, loading, error, running, routes, arrived, cleared,
                 summarizeVars, githubVars, hubVars>>

PageNext ==
  \/ \E github \in RouteAnswers(GitHubLists), hub \in RouteAnswers(HubLists) :
       FetchProjects(github, hub)
  \/ \E src \in {"github", "hub"} : RouteSettles(src)
  \/ \E id \in DOMAIN cards : Summarize(id)
  \/ \E call \in BagToSet(calls), answer \in SummarizeAnswers :
       SummarizeSettles(call, answer)

PageSpec == Init /\ [][PageNext]_vars

(***************************************************************************)
(* Properties of the page.                                                 *)
(***************************************************************************)
\* a run of fetchProjects has ended and no other has started
RunEnded == running = 0 /\ routes.github.kind # "none"

\* the call of the route failed entirely
RouteFailed(answer) == answer.kind \in {"http", "rejected"}

\* the list is in non-increasing order of stars
Descending(list) ==
  \A i \in 1..(Len(list) - 1) : list[i].stars >= list[i + 1].stars

\* the elements of a list, with their numbers
BagOf(list) ==
  LET elems == {list[i] : i \in 1..Len(list)}
  IN  [x \in elems |-> Cardinality({i \in 1..Len(list) : list[i] = x})]

\* C11: whenever the GitHub route call fails entirely (a non-OK response or
\* a rejected request) and the hub route call succeeds with a non-empty
\* list, the list displayed after fetchProjects is the hub's list in
\* descending order of stars and no error is set.
C11_HubShownWhenGitHubFails ==
  (/\ RunEnded
   /\ RouteFailed(routes.github)
   /\ routes.hub.kind = "ok"
   /\ ProjectsOf(routes.hub) # <<>>) =>
    /\ BagOf(projects) = BagOf(ProjectsOf(routes.hub))
    /\ Descending(projects)
    /\ error = Null

\* the most recent run failed: both responses non-OK, or a request rejected
RunFailed ==
  \/ routes.github.kind = "http" /\ routes.hub.kind = "http"
  \/ routes.github.kind = "rejected"
  \/ routes.hub.kind = "rejected"

\* C12: whenever the most recent run of fetchProjects failed, the displayed
\* list is empty and an error message is set, also when an earlier run had
\* filled the list.
C12_FailedRunEmptiesList ==
  (RunEnded /\ RunFailed) =>
    /\ projects = <<>>
    /\ error # Null

\* C20: when at least one route call succeeds, the displayed list is a
\* permutation of the concatenation of the lists of the sources that
\* succeeded, in non-increasing order of stars.
C20_MergedAndSorted ==
  (RunEnded /\ (routes.github.kind = "ok" \/ routes.hub.kind = "ok")) =>
    /\ BagOf(projects)
         = BagOf(ProjectsOf(routes.github) \o ProjectsOf(routes.hub))
    /\ Descending(projects)

\* the calls in flight that carry the text for the card, whether the card is
\* still on the page or not
InFlight(bag, id, text) ==
  CopiesIn([id |-> id, text |-> text, mounted |-> TRUE], bag)
    + CopiesIn([id |-> id, text |-> text, mounted |-> FALSE], bag)

\* C21: a summarize request is issued only by a click on Summarize on the
\* card of a project: the step in which a run of fetchProjects ends issues
\* none, however many projects it displays, and a click issues exactly one
\* request, for the card clicked, with the description of its project.
C21_SummarizeOnlyOnAction ==
  [][/\ (running' # running \/ projects' # projects) =>
          BagCardinality(calls') = BagCardinality(calls)
     /\ \A q \in DOMAIN calls' :
          InFlight(calls', q.id, q.text) > InFlight(calls, q.id, q.text) =>
            /\ cardLast'.op = "click"
            /\ q.id = cardLast'.id
            /\ q.id \in DOMAIN cards
            /\ ~cards[q.id].isSummarizing /\ cards'[q.id].isSummarizing
            /\ q.text = ProjectOf(projects, q.id).description
            /\ InFlight(calls', q.id, q.text)
                 = InFlight(calls, q.id, q.text) + 1
            /\ BagCardinality(calls') = BagCardinality(calls) + 1]_vars

\* a run has ended with four projects displayed, and after one click there
\* is one request in flight, with the description of the project clicked
C21_Witness ==
  /\ RunEnded
  /\ Len(projects) = 4
  /\ cardLast.op = "click"
  /\ cardLast.id = "hf_space_org_shared"
  /\ calls = SetToBag({[id |-> "hf_space_org_shared",
                        text |-> "About org/shared", mounted |-> TRUE]})

\* C22: when the summarize attempt of a card fails (non-OK response or
\* rejected request) the summary of the card is what it was before the
\* attempt, the alert asks to check the API key, and isSummarizing is false
\* again, so that Summarize can be clicked again.
C22_FailureKeepsSummary ==
  (cardLast.op = "failed") =>
    /\ cardLast.alert
         = "Failed to summarize. Please check your API key in Settings."
    /\ cardLast.mounted =>
         /\ cardLast.id \in DOMAIN cards
         /\ cards[cardLast.id].summary = cardLast.before
         /\ ~cards[cardLast.id].isSummarizing
         /\ ENABLED Summarize(cardLast.id)

\* the attempt of a card has failed while another card shows its summary
C22_Witness ==
  /\ cardLast.op = "failed"
  /\ cardLast.mounted
  /\ cards[cardLast.id] = NewCard
  /\ \E id \in DOMAIN cards : cards[id].summary = <<"s1">>

\* C26: the loading flag is true exactly while a run of fetchProjects is in
\* progress, so it is false again after every outcome of a run; at most one
\* run is in progress at any time; and from its start to its end a run has
\* the error cleared.
C26_LoadingTracksRun ==
  /\ running \in {0, 1}
  /\ loading <=> running = 1
  /\ running = 1 => error = Null

\* a run in progress that found the error of the run before it and cleared it
C26_Witness ==
  /\ running = 1
  /\ loading
  /\ cleared # Null
  /\ error = Null
====
